---- MODULE Spec2Model ----
(***************************************************************************)
(* flask_graphql_auth/decorators.py: decoding and validation of a JWT      *)
(* (decode_jwt, get_jwt_data), the two verification helpers that store the *)
(* claim set in the application context, and the two guard decorators      *)
(* (jwt_required, jwt_refresh_token_required).                             *)
(*                                                                         *)
(* An encoded token is represented by what jwt.decode can observe of it:   *)
(* whether it parses, the algorithm of its header, the key it was signed   *)
(* with, the outcome of the exp/nbf/iat validation at decode time, and its *)
(* payload (a dict: a function whose DOMAIN is the set of claims present). *)
(* Claim values are written as their JSON text, so "{}" is the empty       *)
(* mapping.                                                                *)
(***************************************************************************)
EXTENDS Integers, Sequences, FiniteSets, TLC

VARIABLES
    config,     \* current_app.config
    token,      \* SpecToken: the encoded token under examination
    ret,        \* SpecToken: the direct call made and its outcome
    pc,         \* per thread: position in the wrapper
    guard,      \* per thread: which decorator's wrapper is running
    args,       \* per thread: *args the wrapper received
    kwargs,     \* per thread: **kwargs the wrapper received
    jwt,        \* per application context: ctx_stack.top.jwt
    exc,        \* per thread: the exception that left the wrapper
    ncalls,     \* per thread: invocations of fn in the current wrapper call
    fnargs,     \* per thread: the arguments fn was invoked with
    fn_ret,     \* per thread: the value fn returned
    result      \* per thread: the value the wrapper returned

vars == <<config, token, ret, pc, guard, args, kwargs, jwt, exc, ncalls,
          fnargs, fn_ret, result>>

None == "None"

(***************************************************************************)
(* Input domains                                                           *)
(***************************************************************************)
Algorithms == {"HS256", "HS512"}
Secrets == {"s3cret", "wrong"}
IdentityKeys == {"identity", "sub"}
UserClaimsKeys == {"user_claims", "sub"}
TokenTypes == {"access", "refresh"}
Temporal == {"ok", "iat", "nbf", "exp"}

PayloadKeys == {"jti", "type", "identity", "sub", "user_claims"}

\* number of distinct token identifiers
MaxJti == 2
JtiValues == {"jti-" \o ToString(i) : i \in 1..MaxJti}

ValuesOf(k) ==
    CASE k = "jti" -> JtiValues
      [] k = "type" -> {"access", "refresh", "other"}
      [] k = "identity" -> {"user1"}
      [] k = "sub" -> {"user1"}
      [] k = "user_claims" -> {"{}", "{role: admin}"}

ClaimValues == UNION {ValuesOf(k) : k \in PayloadKeys}

Payloads ==
    UNION {{p \in [D -> ClaimValues] : \A k \in D : p[k] \in ValuesOf(k)} :
           D \in SUBSET PayloadKeys}

EmptyPayload == [k \in {} |-> ""]

\* a string that is not a JWT at all
MalformedToken ==
    [wellformed |-> FALSE, alg |-> "HS256", key |-> "s3cret",
     temporal |-> "ok", payload |-> EmptyPayload]

Tokens ==
    {MalformedToken} \cup
    [wellformed : {TRUE}, alg : Algorithms, key : Secrets,
     temporal : Temporal, payload : Payloads]

\* current_app.config: the keys decorators.py reads, and JWT_ALGORITHM, a
\* configured signing algorithm, which it does not read
Configs ==
    [JWT_SECRET_KEY : Secrets, JWT_IDENTITY_CLAIM : IdentityKeys,
     JWT_USER_CLAIMS : UserClaimsKeys, JWT_TOKEN_ARGUMENT_NAME : {"token"},
     JWT_ALGORITHM : Algorithms]

(***************************************************************************)
(* Outcomes of a call: a returned value or a raised exception              *)
(***************************************************************************)
Return(v) == [ok |-> TRUE, val |-> v]
Raise(cls, msg) == [ok |-> FALSE, exc |-> [cls |-> cls, msg |-> msg]]

\* the exception classes of PyJWT that jwt.decode raises
PyJWTErrors ==
    {"jwt.DecodeError", "jwt.InvalidAlgorithmError",
     "jwt.InvalidSignatureError", "jwt.InvalidIssuedAtError",
     "jwt.ImmatureSignatureError", "jwt.ExpiredSignatureError"}

\* jwt.decode(encoded_token, secret, algorithms=[...]) of PyJWT: parse,
\* check the header's algorithm, verify the signature, validate iat/nbf/exp
jwt_decode(encoded_token, secret, algorithms) ==
    IF ~encoded_token.wellformed
    THEN Raise("jwt.DecodeError", "Not enough segments")
    ELSE IF encoded_token.alg \notin algorithms
    THEN Raise("jwt.InvalidAlgorithmError",
               "The specified alg value is not allowed")
    ELSE IF encoded_token.key /= secret
    THEN Raise("jwt.InvalidSignatureError", "Signature verification failed")
    ELSE IF encoded_token.temporal = "iat"
    THEN Raise("jwt.InvalidIssuedAtError", "Issued At claim (iat) invalid")
    ELSE IF encoded_token.temporal = "nbf"
    THEN Raise("jwt.ImmatureSignatureError", "The token is not yet valid (nbf)")
    ELSE IF encoded_token.temporal = "exp"
    THEN Raise("jwt.ExpiredSignatureError", "Signature has expired")
    ELSE Return(encoded_token.payload)

\* data[key] = value
DictSet(data, key, value) ==
    [k \in DOMAIN data \cup {key} |-> IF k = key THEN value ELSE data[k]]

\* variant: the identity claim is checked before jti
decode_jwt_identity_first(encoded_token, secret, algorithm, identity_claim_key, user_claims_key) ==
    LET decoded == jwt_decode(encoded_token, secret, {algorithm}) IN
    IF ~decoded.ok THEN decoded
    ELSE LET data == decoded.val IN
         IF identity_claim_key \notin DOMAIN data
         THEN Raise("JWTDecodeError", "Missing claim: " \o identity_claim_key)
         ELSE IF "jti" \notin DOMAIN data
         THEN Raise("JWTDecodeError", "Missing claim: jti")
         ELSE IF "type" \notin DOMAIN data
                 \/ data["type"] \notin {"refresh", "access"}
         THEN Raise("JWTDecodeError", "Missing or invalid claim: type")
         ELSE IF user_claims_key \notin DOMAIN data
         THEN Return(DictSet(data, user_claims_key, "{}"))
         ELSE Return(data)

\* variant: a missing user-claims key is treated like the other claims
decode_jwt_no_default(encoded_token, secret, algorithm, identity_claim_key, user_claims_key) ==
    LET decoded == jwt_decode(encoded_token, secret, {algorithm}) IN
    IF ~decoded.ok THEN decoded
    ELSE LET data == decoded.val IN
         IF "jti" \notin DOMAIN data
         THEN Raise("JWTDecodeError", "Missing claim: jti")
         ELSE IF identity_claim_key \notin DOMAIN data
         THEN Raise("JWTDecodeError", "Missing claim: " \o identity_claim_key)
         ELSE IF "type" \notin DOMAIN data
                 \/ data["type"] \notin {"refresh", "access"}
         THEN Raise("JWTDecodeError", "Missing or invalid claim: type")
         ELSE IF user_claims_key \notin DOMAIN data
         THEN Raise("JWTDecodeError", "Missing claim: " \o user_claims_key)
         ELSE Return(data)

\* variant: the exceptions of jwt.decode are caught and re-raised as
\* JWTDecodeError
decode_jwt_wrap_errors(encoded_token, secret, algorithm, identity_claim_key, user_claims_key) ==
    LET decoded == jwt_decode(encoded_token, secret, {algorithm}) IN
    IF ~decoded.ok THEN Raise("JWTDecodeError", decoded.exc.msg)
    ELSE LET data == decoded.val IN
         IF "jti" \notin DOMAIN data
         THEN Raise("JWTDecodeError", "Missing claim: jti")
         ELSE IF identity_claim_key \notin DOMAIN data
         THEN Raise("JWTDecodeError", "Missing claim: " \o identity_claim_key)
         ELSE IF "type" \notin DOMAIN data
                 \/ data["type"] \notin {"refresh", "access"}
         THEN Raise("JWTDecodeError", "Missing or invalid claim: type")
         ELSE IF user_claims_key \notin DOMAIN data
         THEN Return(DictSet(data, user_claims_key, "{}"))
         ELSE Return(data)

decode_jwt(encoded_token, secret, algorithm, identity_claim_key, user_claims_key) ==
    LET decoded == jwt_decode(encoded_token, secret, {algorithm}) IN
    IF ~decoded.ok THEN decoded
    ELSE LET data == decoded.val IN
         IF "jti" \notin DOMAIN data
         THEN Raise("JWTDecodeError", "Missing claim: jti")
         ELSE IF identity_claim_key \notin DOMAIN data
         THEN Raise("JWTDecodeError", "Missing claim: " \o identity_claim_key)
         ELSE IF "type" \notin DOMAIN data
                 \/ data["type"] \notin {"refresh", "access"}
         THEN Raise("JWTDecodeError", "Missing or invalid claim: type")
         ELSE IF user_claims_key \notin DOMAIN data
         THEN Return(DictSet(data, user_claims_key, "{}"))
         ELSE Return(data)

\* variant: the algorithm is read from the configuration
get_jwt_data_config_alg(tok, token_type) ==
    LET jwt_data == decode_jwt(tok, config.JWT_SECRET_KEY,
                               config.JWT_ALGORITHM,
                               config.JWT_IDENTITY_CLAIM,
                               config.JWT_USER_CLAIMS) IN
    IF ~jwt_data.ok THEN jwt_data
    ELSE IF jwt_data.val["type"] /= token_type
    THEN Raise("WrongTokenError",
               "Only " \o token_type \o " tokens are allowed")
    ELSE jwt_data

get_jwt_data(tok, token_type) ==
    LET jwt_data == decode_jwt(tok, config.JWT_SECRET_KEY, "HS256",
                               config.JWT_IDENTITY_CLAIM,
                               config.JWT_USER_CLAIMS) IN
    IF ~jwt_data.ok THEN jwt_data
    ELSE IF jwt_data.val["type"] /= token_type
    THEN Raise("WrongTokenError",
               "Only " \o token_type \o " tokens are allowed")
    ELSE jwt_data

(***************************************************************************)
(* The guards: state of the worker threads                                 *)
(***************************************************************************)
Threads == {"t1", "t2"}

\* variant: one slot for the whole process
ctx_stack_top_shared(t) == "t1"

\* ctx_stack is a thread-local stack: ctx_stack.top is the application
\* context of the calling thread (contexts are named after their thread)
ctx_stack_top(t) == t

NoCall == [fn |-> None]
Unset == [has |-> FALSE]
Stored(data) == [has |-> TRUE, data |-> data]
NoExc == [cls |-> None, msg |-> ""]
NotCalled == [called |-> FALSE]

GuardIdle ==
    /\ pc = [t \in Threads |-> "idle"]
    /\ guard = [t \in Threads |-> None]
    /\ args = [t \in Threads |-> <<>>]
    /\ kwargs = [t \in Threads |-> EmptyPayload]
    /\ jwt = [c \in Threads |-> Unset]
    /\ exc = [t \in Threads |-> NoExc]
    /\ ncalls = [t \in Threads |-> 0]
    /\ fnargs = [t \in Threads |-> NotCalled]
    /\ fn_ret = [t \in Threads |-> None]
    /\ result = [t \in Threads |-> None]

guardVars == <<pc, guard, args, kwargs, jwt, exc, ncalls, fnargs, fn_ret,
               result>>

(***************************************************************************)
(* Spec: the wrappers of jwt_required and jwt_refresh_token_required run   *)
(* by two threads, each in its own application context, any number of      *)
(* times                                                                   *)
(***************************************************************************)
Signed(payload) ==
    [wellformed |-> TRUE, alg |-> "HS256", key |-> "s3cret",
     temporal |-> "ok", payload |-> payload]

AccessPayload ==
    [jti |-> "jti-1", type |-> "access", identity |-> "user1",
     sub |-> "user1", user_claims |-> "{role: admin}"]

RefreshPayload ==
    [jti |-> "jti-2", type |-> "refresh", identity |-> "user1",
     sub |-> "user1"]

GuardPayloads ==
    {AccessPayload, RefreshPayload,
     [type |-> "access", identity |-> "user1", sub |-> "user1"],
     [jti |-> "jti-1", type |-> "access"],
     [jti |-> "jti-1", identity |-> "user1", sub |-> "user1"],
     [jti |-> "jti-1", type |-> "other", identity |-> "user1",
      sub |-> "user1"],
     [jti |-> "jti-2", type |-> "refresh", sub |-> "user1",
      user_claims |-> "{}"]}

GuardTokens ==
    {MalformedToken}
    \cup {Signed(p) : p \in GuardPayloads}
    \cup {[Signed(AccessPayload) EXCEPT !.alg = "HS512"],
          [Signed(AccessPayload) EXCEPT !.key = "wrong"]}
    \cup {[Signed(AccessPayload) EXCEPT !.temporal = x] :
          x \in Temporal \ {"ok"}}

GuardConfigs == {c \in Configs : /\ c.JWT_SECRET_KEY = "s3cret"
                                 /\ c.JWT_USER_CLAIMS = "user_claims"}

Decorators == {"jwt_required", "jwt_refresh_token_required"}
PositionalArgs == {<<"root", "info">>}
KeywordArgs ==
    {[token |-> tok, id |-> "42"] : tok \in GuardTokens} \cup {[id |-> "42"]}
FnResults == {"r1", "r2"}
FnError == [cls |-> "HandlerError", msg |-> "raised by fn"]

Init ==
    /\ config \in GuardConfigs
    /\ token = None
    /\ ret = NoCall
    /\ GuardIdle

\* the framework calls the decorated function
Call(t, g, a, kw) ==
    /\ pc[t] \in {"idle", "returned", "raised"}
    /\ pc' = [pc EXCEPT ![t] = "wrapper"]
    /\ guard' = [guard EXCEPT ![t] = g]
    /\ args' = [args EXCEPT ![t] = a]
    /\ kwargs' = [kwargs EXCEPT ![t] = kw]
    /\ exc' = [exc EXCEPT ![t] = NoExc]
    /\ ncalls' = [ncalls EXCEPT ![t] = 0]
    /\ fnargs' = [fnargs EXCEPT ![t] = NotCalled]
    /\ fn_ret' = [fn_ret EXCEPT ![t] = None]
    /\ result' = [result EXCEPT ![t] = None]
    /\ UNCHANGED <<config, token, ret, jwt>>

\* an exception leaves the wrapper
Propagate(t, e) ==
    /\ pc' = [pc EXCEPT ![t] = "raised"]
    /\ exc' = [exc EXCEPT ![t] = e]

\* variant: a failed verification is swallowed
verify_in_argument_swallow(t, tok, token_type) ==
    LET jwt_data == get_jwt_data(tok, token_type) IN
    /\ pc' = [pc EXCEPT ![t] = "verified"]
    /\ UNCHANGED exc
    /\ IF jwt_data.ok
       THEN jwt' = [jwt EXCEPT ![ctx_stack_top(t)] = Stored(jwt_data.val)]
       ELSE UNCHANGED jwt

\* variant: the decoded claim set is stored before the type check
verify_in_argument_store_first(t, tok, token_type) ==
    LET decoded == decode_jwt(tok, config.JWT_SECRET_KEY, "HS256",
                              config.JWT_IDENTITY_CLAIM,
                              config.JWT_USER_CLAIMS)
        jwt_data == get_jwt_data(tok, token_type)
    IN
    /\ IF decoded.ok
       THEN jwt' = [jwt EXCEPT ![ctx_stack_top(t)] = Stored(decoded.val)]
       ELSE UNCHANGED jwt
    /\ IF jwt_data.ok
       THEN pc' = [pc EXCEPT ![t] = "verified"] /\ UNCHANGED exc
       ELSE Propagate(t, jwt_data.exc)

\* the body shared by verify_jwt_in_argument and
\* verify_refresh_jwt_in_argument
verify_in_argument(t, tok, token_type) ==
    LET jwt_data == get_jwt_data(tok, token_type) IN
    IF jwt_data.ok
    THEN /\ jwt' = [jwt EXCEPT ![ctx_stack_top(t)] = Stored(jwt_data.val)]
         /\ pc' = [pc EXCEPT ![t] = "verified"]
         /\ UNCHANGED exc
    ELSE /\ Propagate(t, jwt_data.exc)
         /\ UNCHANGED jwt

verify_jwt_in_argument(t, tok) == verify_in_argument(t, tok, "access")

\* variant: the refresh helper asks for an access token
verify_refresh_jwt_in_argument_access(t, tok) ==
    verify_in_argument(t, tok, "access")

verify_refresh_jwt_in_argument(t, tok) ==
    verify_in_argument(t, tok, "refresh")

\* first statement of either wrapper: kwargs[...] and the verification
wrapper_verify(t) ==
    /\ pc[t] = "wrapper"
    /\ LET name == config.JWT_TOKEN_ARGUMENT_NAME IN
       IF name \notin DOMAIN kwargs[t]
       THEN /\ Propagate(t, [cls |-> "KeyError", msg |-> name])
            /\ UNCHANGED jwt
       ELSE IF guard[t] = "jwt_required"
       THEN verify_jwt_in_argument(t, kwargs[t][name])
       ELSE verify_refresh_jwt_in_argument(t, kwargs[t][name])
    /\ UNCHANGED <<config, token, ret, guard, args, kwargs, ncalls, fnargs,
                   fn_ret, result>>

\* variant: fn is called without the token argument
wrapper_call_fn_drop_token(t) ==
    /\ pc[t] = "verified"
    /\ pc' = [pc EXCEPT ![t] = "in_fn"]
    /\ ncalls' = [ncalls EXCEPT ![t] = @ + 1]
    /\ fnargs' = [fnargs EXCEPT ![t] =
                     [called |-> TRUE, args |-> args[t],
                      kwargs |-> [k \in DOMAIN kwargs[t]
                                        \ {config.JWT_TOKEN_ARGUMENT_NAME}
                                  |-> kwargs[t][k]]]]
    /\ UNCHANGED <<config, token, ret, guard, args, kwargs, jwt, exc, fn_ret,
                   result>>

\* second statement of either wrapper: fn(*args, **kwargs) is entered
wrapper_call_fn(t) ==
    /\ pc[t] = "verified"
    /\ pc' = [pc EXCEPT ![t] = "in_fn"]
    /\ ncalls' = [ncalls EXCEPT ![t] = @ + 1]
    /\ fnargs' = [fnargs EXCEPT ![t] = [called |-> TRUE, args |-> args[t],
                                        kwargs |-> kwargs[t]]]
    /\ UNCHANGED <<config, token, ret, guard, args, kwargs, jwt, exc, fn_ret,
                   result>>

\* fn returns r to the wrapper
FnReturn(t, r) ==
    /\ pc[t] = "in_fn"
    /\ pc' = [pc EXCEPT ![t] = "fn_done"]
    /\ fn_ret' = [fn_ret EXCEPT ![t] = r]
    /\ UNCHANGED <<config, token, ret, guard, args, kwargs, jwt, exc, ncalls,
                   fnargs, result>>

\* fn raises: the wrapper has no handler, the exception leaves it
FnRaise(t) ==
    /\ pc[t] = "in_fn"
    /\ Propagate(t, FnError)
    /\ UNCHANGED <<config, token, ret, guard, args, kwargs, jwt, ncalls,
                   fnargs, fn_ret, result>>

\* variant: the slot is cleared when the wrapper returns
wrapper_return_clear(t) ==
    /\ pc[t] = "fn_done"
    /\ pc' = [pc EXCEPT ![t] = "returned"]
    /\ result' = [result EXCEPT ![t] = fn_ret[t]]
    /\ jwt' = [jwt EXCEPT ![ctx_stack_top(t)] = Unset]
    /\ UNCHANGED <<config, token, ret, guard, args, kwargs, exc, ncalls,
                   fnargs, fn_ret>>

\* return fn(*args, **kwargs)
wrapper_return(t) ==
    /\ pc[t] = "fn_done"
    /\ pc' = [pc EXCEPT ![t] = "returned"]
    /\ result' = [result EXCEPT ![t] = fn_ret[t]]
    /\ UNCHANGED <<config, token, ret, guard, args, kwargs, jwt, exc, ncalls,
                   fnargs, fn_ret>>

Next ==
    \/ \E t \in Threads, g \in Decorators, a \in PositionalArgs,
          kw \in KeywordArgs : Call(t, g, a, kw)
    \/ \E t \in Threads : wrapper_verify(t)
    \/ \E t \in Threads : wrapper_call_fn(t)
    \/ \E t \in Threads, r \in FnResults : FnReturn(t, r)
    \/ \E t \in Threads : FnRaise(t)
    \/ \E t \in Threads : wrapper_return(t)

Spec == Init /\ [][Next]_vars

(***************************************************************************)
(* SpecToken: any token whatever, given once to decode_jwt, to             *)
(* get_jwt_data, or to a guarded function called in thread t1              *)
(***************************************************************************)
InitToken ==
    /\ config \in Configs
    /\ token \in Tokens
    /\ ret = NoCall
    /\ GuardIdle

Fresh == ret = NoCall /\ pc["t1"] = "idle"

DecodeJwt(algorithm) ==
    /\ Fresh
    /\ ret' = [fn |-> "decode_jwt", algorithm |-> algorithm,
               out |-> decode_jwt(token, config.JWT_SECRET_KEY, algorithm,
                                  config.JWT_IDENTITY_CLAIM,
                                  config.JWT_USER_CLAIMS)]
    /\ UNCHANGED <<config, token, guardVars>>

GetJwtData(token_type) ==
    /\ Fresh
    /\ ret' = [fn |-> "get_jwt_data", token_type |-> token_type,
               out |-> get_jwt_data(token, token_type)]
    /\ UNCHANGED <<config, token, guardVars>>

\* the decorated function is called, with or without the token argument
GuardCall(g, a, with_token) ==
    /\ Fresh
    /\ Call("t1", g, a, IF with_token THEN [token |-> token, id |-> "42"]
                        ELSE [id |-> "42"])

NextToken ==
    \/ \E algorithm \in Algorithms : DecodeJwt(algorithm)
    \/ \E token_type \in TokenTypes : GetJwtData(token_type)
    \/ \E g \in Decorators, a \in PositionalArgs, with_token \in BOOLEAN :
          GuardCall(g, a, with_token)
    \/ wrapper_verify("t1")
    \/ wrapper_call_fn("t1")
    \/ \E r \in FnResults : FnReturn("t1", r)
    \/ FnRaise("t1")
    \/ wrapper_return("t1")

SpecToken == InitToken /\ [][NextToken]_vars

(***************************************************************************)
(* Properties of decode_jwt, get_jwt_data and one guarded call (SpecToken) *)
(***************************************************************************)
ExpectedType(g) == IF g = "jwt_required" THEN "access" ELSE "refresh"

Started(t) == pc[t] \notin {"idle", "wrapper"}
HasToken(t) == config.JWT_TOKEN_ARGUMENT_NAME \in DOMAIN kwargs[t]
TokenOf(t) == kwargs[t][config.JWT_TOKEN_ARGUMENT_NAME]

\* what the verification of thread t's current call amounts to
Verification(t) ==
    IF HasToken(t)
    THEN get_jwt_data(TokenOf(t), ExpectedType(guard[t]))
    ELSE Raise("KeyError", config.JWT_TOKEN_ARGUMENT_NAME)

\* the wrapper got past the verification
Accepted(t) ==
    \/ pc[t] \in {"verified", "in_fn", "fn_done", "returned"}
    \/ pc[t] = "raised" /\ ncalls[t] = 1

\* the wrapper is over after fn ran
Finished(t) ==
    \/ pc[t] = "returned"
    \/ pc[t] = "raised" /\ ncalls[t] = 1

Called(f) == ret.fn = f

\* the outcome of the underlying jwt.decode step of the call made
Underlying ==
    jwt_decode(token, config.JWT_SECRET_KEY,
               {IF Called("decode_jwt") THEN ret.algorithm ELSE "HS256"})

MissingJti == "jti" \notin DOMAIN token.payload
MissingIdentity == config.JWT_IDENTITY_CLAIM \notin DOMAIN token.payload
BadType ==
    \/ "type" \notin DOMAIN token.payload
    \/ token.payload["type"] \notin TokenTypes
MissingUserClaims == config.JWT_USER_CLAIMS \notin DOMAIN token.payload

\* C2: for a token that decodes successfully, the guard accepts it iff its
\* type is the guard's expected type; otherwise WrongTokenError names the
\* expected type.
C2_TypeDiscrimination ==
    \A t \in Threads :
        (Started(t) /\ HasToken(t)) =>
            LET decoded == decode_jwt(TokenOf(t), config.JWT_SECRET_KEY,
                                      "HS256", config.JWT_IDENTITY_CLAIM,
                                      config.JWT_USER_CLAIMS)
                expected == ExpectedType(guard[t])
            IN  decoded.ok =>
                  /\ Accepted(t) <=> decoded.val["type"] = expected
                  /\ decoded.val["type"] /= expected =>
                        /\ pc[t] = "raised"
                        /\ exc[t] = [cls |-> "WrongTokenError",
                                     msg |-> "Only " \o expected
                                             \o " tokens are allowed"]

\* a valid refresh token is rejected by jwt_required
C2_Witness ==
    /\ token.wellformed /\ "type" \in DOMAIN token.payload
    /\ token.payload["type"] = "refresh"
    /\ guard["t1"] = "jwt_required" /\ pc["t1"] = "raised"
    /\ exc["t1"] = [cls |-> "WrongTokenError",
                    msg |-> "Only access tokens are allowed"]

\* C3: when the underlying decode succeeds, decode_jwt checks jti, then the
\* configured identity claim, then type, and raises JWTDecodeError naming
\* the first claim whose check fails; it succeeds only if all three pass.
C3_CheckOrder ==
    (Called("decode_jwt") /\ Underlying.ok) =>
        IF MissingJti
        THEN ret.out = Raise("JWTDecodeError", "Missing claim: jti")
        ELSE IF MissingIdentity
        THEN ret.out = Raise("JWTDecodeError",
                             "Missing claim: " \o config.JWT_IDENTITY_CLAIM)
        ELSE IF BadType
        THEN ret.out = Raise("JWTDecodeError",
                             "Missing or invalid claim: type")
        ELSE ret.out.ok

\* jti and the identity claim are both missing (and type too): jti is named
C3_Witness ==
    /\ Called("decode_jwt") /\ Underlying.ok
    /\ MissingJti /\ MissingIdentity /\ BadType
    /\ ret.out.exc.msg = "Missing claim: jti"

\* C4: a payload with jti, the identity claim and a recognized type decodes
\* successfully; a missing user-claims key is filled in with the empty
\* mapping, a present one is returned unchanged, nothing else is altered.
C4_DefaultUserClaims ==
    (/\ Called("decode_jwt") /\ Underlying.ok
     /\ ~MissingJti /\ ~MissingIdentity /\ ~BadType) =>
        /\ ret.out.ok
        /\ DOMAIN ret.out.val =
               DOMAIN token.payload \cup {config.JWT_USER_CLAIMS}
        /\ \A k \in DOMAIN token.payload : ret.out.val[k] = token.payload[k]
        /\ MissingUserClaims => ret.out.val[config.JWT_USER_CLAIMS] = "{}"

C4_Witness ==
    /\ Called("decode_jwt") /\ Underlying.ok
    /\ ~MissingJti /\ ~MissingIdentity /\ ~BadType /\ MissingUserClaims
    /\ ret.out.ok
    /\ ret.out.val[config.JWT_USER_CLAIMS] = "{}"

\* C6 as claimed: a failure of the underlying decode step (expiry, nbf, iat,
\* signature) leaves decode_jwt and get_jwt_data as JWTDecodeError.
C6_Claimed ==
    /\ (ret /= NoCall /\ ~Underlying.ok) =>
          /\ ~ret.out.ok
          /\ ret.out.exc.cls = "JWTDecodeError"
    /\ \A t \in Threads :
          (/\ Started(t) /\ HasToken(t)
           /\ ~jwt_decode(TokenOf(t), config.JWT_SECRET_KEY, {"HS256"}).ok)
          => (pc[t] = "raised" /\ exc[t].cls = "JWTDecodeError")

\* C6 amended: a token the underlying decode step refuses is rejected
\* whatever its claims are, with the exception jwt.decode raised, unchanged:
\* one of PyJWT's classes (jwt.ExpiredSignatureError for a token that is
\* only expired), never JWTDecodeError or WrongTokenError; this holds of
\* decode_jwt, of get_jwt_data and of the guards, which do not call fn.
C6_UnderlyingErrorUnchanged ==
    /\ (ret /= NoCall /\ ~Underlying.ok) =>
          /\ ~ret.out.ok
          /\ ret.out = Underlying
          /\ ret.out.exc.cls \in PyJWTErrors
          /\ (/\ token.wellformed
              /\ token.temporal = "exp"
              /\ token.key = config.JWT_SECRET_KEY
              /\ token.alg = (IF Called("decode_jwt") THEN ret.algorithm
                             ELSE "HS256"))
             => ret.out.exc.cls = "jwt.ExpiredSignatureError"
    /\ \A t \in Threads :
          (Started(t) /\ HasToken(t)) =>
              LET decoded == jwt_decode(TokenOf(t), config.JWT_SECRET_KEY,
                                        {"HS256"})
              IN  ~decoded.ok =>
                     /\ pc[t] = "raised" /\ ncalls[t] = 0
                     /\ exc[t] = decoded.exc
                     /\ exc[t].cls \in PyJWTErrors

\* an expired token whose signature and claims are all valid
C6_Witness ==
    /\ Called("get_jwt_data")
    /\ token.wellformed /\ token.temporal = "exp"
    /\ token.alg = "HS256" /\ token.key = config.JWT_SECRET_KEY
    /\ ~MissingJti /\ ~MissingIdentity /\ ~BadType
    /\ token.payload["type"] = ret.token_type
    /\ ret.out.exc.cls = "jwt.ExpiredSignatureError"

\* the decode step of get_jwt_data let the token through
DecodeStepAccepted ==
    /\ Called("get_jwt_data")
    /\ \/ ret.out.ok
       \/ ret.out.exc.cls \notin PyJWTErrors

\* C9 as claimed: get_jwt_data verifies under the configured algorithm.
C9_Claimed == DecodeStepAccepted => token.alg = config.JWT_ALGORITHM

\* C9 amended: get_jwt_data takes the secret, the identity claim key and
\* the user-claims key from the configuration, and the algorithm is fixed
\* to HS256 whatever is configured: a token passes the decode step only if
\* it is signed with HS256 and the configured secret.
C9_FixedHS256 ==
    /\ DecodeStepAccepted =>
           /\ token.alg = "HS256"
           /\ token.key = config.JWT_SECRET_KEY
           /\ token.wellformed /\ token.temporal = "ok"
    /\ (Called("get_jwt_data") /\ ret.out.ok) =>
           /\ config.JWT_IDENTITY_CLAIM \in DOMAIN ret.out.val
           /\ config.JWT_USER_CLAIMS \in DOMAIN ret.out.val

\* HS512 is configured and an HS256 token is accepted
C9_Witness ==
    /\ Called("get_jwt_data") /\ ret.out.ok
    /\ config.JWT_ALGORITHM = "HS512"
    /\ token.alg = "HS256"

(***************************************************************************)
(* Properties of the guards (Spec)                                         *)
(***************************************************************************)
\* C1: when extracting the token, decoding it or the type check fails, fn
\* is not invoked and the failure leaves the wrapper unchanged.
C1_FailureSkipsHandler ==
    \A t \in Threads :
        (Started(t) /\ ~Verification(t).ok) =>
            /\ pc[t] = "raised"
            /\ ncalls[t] = 0
            /\ fnargs[t] = NotCalled
            /\ result[t] = None
            /\ exc[t] = Verification(t).exc

\* all three kinds of failure have been propagated
C1_Witness ==
    /\ pc["t1"] = "raised" /\ ncalls["t1"] = 0
    /\ exc["t1"].cls = "WrongTokenError"
    /\ pc["t2"] = "raised" /\ ncalls["t2"] = 0
    /\ exc["t2"].cls \in {"KeyError", "JWTDecodeError"}

\* the application context slot as thread t reads it
SlotOf(t) == jwt[ctx_stack_top(t)]

\* C5: while a request's handler runs, the slot it reads holds the claim
\* set decoded from its own token, whatever the other thread does.
C5_Isolation ==
    \A t \in Threads :
        pc[t] = "in_fn" => SlotOf(t) = Stored(Verification(t).val)

\* both handlers run, with different claim sets
C5_Witness ==
    /\ pc["t1"] = "in_fn" /\ pc["t2"] = "in_fn"
    /\ SlotOf("t1").data["jti"] /= SlotOf("t2").data["jti"]

\* C7: when verification succeeds the claim set is in the slot before fn
\* starts, fn is invoked once with the arguments the wrapper received, and
\* the wrapper returns what fn returned.
C7_HandlerInvocation ==
    \A t \in Threads :
        /\ pc[t] = "verified" =>
              /\ SlotOf(t) = Stored(Verification(t).val)
              /\ ncalls[t] = 0
        /\ pc[t] \in {"in_fn", "fn_done", "returned"} =>
              /\ Verification(t).ok
              /\ ncalls[t] = 1
              /\ fnargs[t] = [called |-> TRUE, args |-> args[t],
                              kwargs |-> kwargs[t]]
        /\ pc[t] = "returned" =>
              /\ fn_ret[t] \in FnResults
              /\ result[t] = fn_ret[t]

C7_Witness ==
    /\ pc["t1"] = "returned"
    /\ result["t1"] = "r2"
    /\ fnargs["t1"].kwargs["token"] = Signed(AccessPayload)
    /\ fnargs["t1"].args = <<"root", "info">>

\* C8 as claimed: once the wrapper is over, the slot no longer holds the
\* invocation's claim set.
C8_Claimed ==
    \A t \in Threads :
        Finished(t) => SlotOf(t) /= Stored(Verification(t).val)

\* C8 amended: the wrapper never clears the slot: after it has returned, or
\* fn has raised, the slot still holds the invocation's claim set (until a
\* later successful verification in the same context replaces it).
C8_SlotKept ==
    \A t \in Threads :
        Finished(t) => SlotOf(t) = Stored(Verification(t).val)

C8_Witness ==
    /\ pc["t1"] = "returned"
    /\ pc["t2"] = "raised" /\ ncalls["t2"] = 1
    /\ SlotOf("t1").has /\ SlotOf("t2").has

ValidClaimSet(data, token_type) ==
    /\ {"jti", "type", config.JWT_IDENTITY_CLAIM, config.JWT_USER_CLAIMS}
           \subseteq DOMAIN data
    /\ data["type"] = token_type

\* C10: the slot changes only when a verification succeeds, to that
\* verification's claim set, which has jti, the identity claim, the
\* user-claims key and the guard's expected type; a failed verification
\* leaves it as it was.
C10_SlotWrittenOnSuccessOnly ==
    [][\A t \in Threads :
         /\ (pc[t] = "wrapper" /\ pc'[t] = "verified") =>
               /\ Verification(t).ok
               /\ ValidClaimSet(Verification(t).val, ExpectedType(guard[t]))
               /\ jwt' = [jwt EXCEPT ![ctx_stack_top(t)] =
                                        Stored(Verification(t).val)]
         /\ (pc[t] = "wrapper" /\ pc'[t] = "raised") => jwt' = jwt
         /\ pc[t] /= "wrapper" => jwt'[ctx_stack_top(t)] = SlotOf(t)
      ]_vars

\* a verification failed after one succeeded: the slot holds the older set
C10_Witness ==
    /\ pc["t1"] = "raised" /\ ncalls["t1"] = 0
    /\ exc["t1"].cls = "WrongTokenError"
    /\ SlotOf("t1").has
    /\ SlotOf("t1").data["type"] = "access"
    /\ guard["t1"] = "jwt_required"

====
